---- MODULE Spec2Model ----
(***************************************************************************)
(* Model of src/HP_Utility.py (TCS GPU Driver Toolkit): one run of main(), *)
(* with parse_ids, find_inf, install_driver_from_folder,                   *)
(* block_windows_driver_updates and export_current_display_driver          *)
(* (Spec), find_inf on its own (SpecFindInf) and newest_driver_folder,     *)
(* which main never calls (SpecNewest).                                    *)
(*                                                                         *)
(* Text is a tuple of one-character strings.  An optional value is a       *)
(* tuple of length 0 (Python None) or 1 (the value).  A path is a tuple of *)
(* names relative to DRIVER_LIB.                                           *)
(***************************************************************************)
EXTENDS Naturals, Sequences, FiniteSets

VARIABLES
    pc,        \* position of main()
    dry_run,   \* args.dry_run
    info,      \* the record returned by get_system_info(), {} before it
    idx,       \* parse_ids: index of the next element of ids
    ven,       \* parse_ids / main: vendor, optional
    dev,       \* parse_ids / main: device, optional
    subsys,    \* parse_ids / main: subsystem, optional
    scanned,   \* parse_ids: number of elements of ids the loop has processed
    dirs,      \* the directories that exist under DRIVER_LIB
    chosen,    \* main: chosen, optional path
    fsReads,   \* filesystem queries made by resolution, in order
    walk,      \* find_inf: the files of the chosen folder in walk order,
               \* empty outside install_driver_from_folder
    inf,       \* install_driver_from_folder: inf, optional name
    ok,        \* install_driver_from_folder: its return value, optional
    effects,   \* external changes made by the run, in order
    logs,      \* messages passed to log(), in order
    listing,   \* newest_driver_folder: base.iterdir(), in order
    newest_result, \* newest_driver_folder: its return value, optional
    npc        \* position of newest_driver_folder

vars == <<pc, dry_run, info, idx, ven, dev, subsys, scanned, dirs, chosen,
          fsReads, walk, inf, ok, effects, logs, listing, newest_result, npc>>

mainVars == <<pc, dry_run, info, idx, ven, dev, subsys, scanned, dirs, chosen,
              fsReads, walk, inf, ok, effects, logs>>

newestVars == <<listing, newest_result, npc>>

(***************************************************************************)
(* Bounds of the model.                                                    *)
(***************************************************************************)
MaxIds == 2
MaxVersions == 2
MaxFiles == 3
MaxEntries == 3
MaxMtime == 2

(***************************************************************************)
(* Optional values.                                                        *)
(***************************************************************************)
None == <<>>
Some(v) == <<v>>
Truthy(o) == o # None /\ o[1] # <<>>

(***************************************************************************)
(* Text.                                                                   *)
(***************************************************************************)
Upper(c) ==
    CASE c = "a" -> "A" [] c = "b" -> "B" [] c = "c" -> "C" [] c = "d" -> "D"
      [] c = "e" -> "E" [] c = "f" -> "F" [] c = "g" -> "G" [] c = "h" -> "H"
      [] c = "i" -> "I" [] c = "l" -> "L" [] c = "m" -> "M" [] c = "n" -> "N"
      [] c = "o" -> "O" [] c = "p" -> "P" [] c = "r" -> "R" [] c = "s" -> "S"
      [] c = "t" -> "T" [] c = "u" -> "U" [] c = "v" -> "V" [] c = "x" -> "X"
      [] c = "y" -> "Y" [] OTHER -> c

UpperText(s) == [k \in 1..Len(s) |-> Upper(s[k])]

IsHex(c) == Upper(c) \in {"0", "1", "2", "3", "4", "5", "6", "7", "8", "9",
                          "A", "B", "C", "D", "E", "F"}

\* s[from .. from+Len(lit)-1] equals lit, ignoring case
MatchesAtCI(s, from, lit) ==
    /\ from + Len(lit) - 1 <= Len(s)
    /\ \A k \in 1..Len(lit) : Upper(s[from + k - 1]) = Upper(lit[k])

StartsWithCI(s, lit) == MatchesAtCI(s, 1, lit)
EndsWithCI(s, lit) ==
    Len(s) >= Len(lit) /\ MatchesAtCI(s, Len(s) - Len(lit) + 1, lit)
StartsWith(s, lit) ==
    Len(s) >= Len(lit) /\ SubSeq(s, 1, Len(lit)) = lit

MinOf(S) == CHOOSE m \in S : \A n \in S : m <= n

\* re.search(tag + "([0-9A-F]{n})", s, re.I): the group of the leftmost match
ReSearch(tag, n, s) ==
    LET hits == {p \in 1..Len(s) :
                    /\ MatchesAtCI(s, p, tag)
                    /\ p + Len(tag) + n - 1 <= Len(s)
                    /\ \A k \in 0..(n - 1) : IsHex(s[p + Len(tag) + k])}
    IN  IF hits = {} THEN None
        ELSE LET at == MinOf(hits) + Len(tag)
             IN  Some(SubSeq(s, at, at + n - 1))

VenTag == <<"V","E","N","_">>
DevTag == <<"D","E","V","_">>
SubsysTag == <<"S","U","B","S","Y","S","_">>

\* m = re.search(...); the value m.group(1).upper() when m matched
SearchUpper(tag, n, s) ==
    LET m == ReSearch(tag, n, s)
    IN  IF m # None THEN Some(UpperText(m[1])) ELSE None

\* "if m: field = m.group(1).upper()", with found the optional new value
\* variant with a fault: a field once set is kept
AssignFirstOnly(old, found) == IF old # None THEN old ELSE found
Assign(old, found) == IF found # None THEN found ELSE old

\* "if ven and dev and subsys: break"
AllFilled(v, d, s) == Truthy(v) /\ Truthy(d) /\ Truthy(s)

(***************************************************************************)
(* The inputs: hardware-ID strings, the inventory record.                  *)
(***************************************************************************)
IdFull == <<"P","C","I","\\","V","E","N","_","8","0","8","6","&","D","E","V","_","8","A","5","6","&","S","U","B","S","Y","S","_","8","6","A","B","1","0","3","C","&","R","E","V","_","0","C">>
IdVenDev == <<"P","C","I","\\","V","E","N","_","8","0","8","6","&","D","E","V","_","8","A","5","6">>
IdOtherVen == <<"p","c","i","\\","v","e","n","_","1","0","d","e">>
IdSubsys == <<"S","U","B","S","Y","S","_","8","6","a","b","1","0","3","c">>
IdMalformed == <<"A","C","P","I","\\","V","E","N","_","8","0">>

IdStrings == {IdFull, IdVenDev, IdOtherVen, IdSubsys, IdMalformed}

RECURSIVE SeqsUpTo(_, _)
SeqsUpTo(S, n) ==
    IF n = 0 THEN {<<>>}
    ELSE LET shorter == SeqsUpTo(S, n - 1)
         IN  shorter \cup {Append(q, x) : q \in {r \in shorter : Len(r) = n - 1}, x \in S}

IdSequences == SeqsUpTo(IdStrings, MaxIds)

\* lines 87-92 on each hardware-ID string: the three searches, evaluated once
VenTokens == [s \in IdStrings |-> SearchUpper(VenTag, 4, s)]
DevTokens == [s \in IdStrings |-> SearchUpper(DevTag, 4, s)]
SubsysTokens == [s \in IdStrings |-> SearchUpper(SubsysTag, 8, s)]
VenOf(s) == VenTokens[s]
DevOf(s) == DevTokens[s]
SubsysOf(s) == SubsysTokens[s]

OemInf == <<"o","e","m","1","2",".","i","n","f">>
DrvVerText == <<"3","1",".","0"," ","1","0","1">>

\* json.loads(out): the fields main reads.  HardwareIds is None when the key is
\* missing or null.  CurrentInf and CurrentDrvVer both come from $pnpsigned and
\* are null together when no signed display driver is found.  {} is the record
\* of an inventory that returned nothing.
EmptyInfo == [empty |-> TRUE, HardwareIds |-> None, CurrentInf |-> None,
              CurrentDrvVer |-> None, GPUDriver |-> None]
PnpSigned == {<<None, None>>, <<Some(<<>>), Some(DrvVerText)>>,
              <<Some(OemInf), Some(DrvVerText)>>}
InfoRecords ==
    {[empty |-> FALSE, HardwareIds |-> h, CurrentInf |-> p[1],
      CurrentDrvVer |-> p[2], GPUDriver |-> None] :
        h \in {None} \cup {Some(q) : q \in IdSequences}, p \in PnpSigned}

(***************************************************************************)
(* The driver library: the directories under DRIVER_LIB.                   *)
(***************************************************************************)
NoneText == <<"N","o","n","e">>
SubsysPrefix == <<"S","U","B","S","Y","S","_">>
ExportedSuffix == <<"-","e","x","p","o","r","t","e","d">>
UnknownText == <<"u","n","k","n","o","w","n">>
DirVenDev == <<"8","0","8","6","_","8","A","5","6">>
DirNoneNone == <<"N","o","n","e","_","N","o","n","e">>
DirSubsys == <<"S","U","B","S","Y","S","_","8","6","A","B","1","0","3","C">>

Digits == <<"1", "2", "3", "4", "5", "6", "7", "8", "9">>
VerName(k) == <<"v", Digits[k]>>
Under(d, k) == {Append(d, VerName(j)) : j \in 1..k}

VenDevTrees ==
    {{}} \cup
    {{<<DirVenDev>>} \cup Under(<<DirVenDev>>, dk) \cup sub :
        dk \in 0..MaxVersions,
        sub \in {{}} \cup {{<<DirVenDev, DirSubsys>>}
                            \cup Under(<<DirVenDev, DirSubsys>>, sk) :
                                sk \in 0..MaxVersions}}
NoneTrees == {{}, {<<DirNoneNone>>} \cup Under(<<DirNoneNone>>, 1)}
Libraries == {a \cup n : a \in VenDevTrees, n \in NoneTrees}

\* f"{x}" of an optional text
Fmt(o) == IF o = None THEN NoneText ELSE o[1]

\* DRIVER_LIB / f"{ven}_{dev}"
VenDevDirOf(v, d) == <<Fmt(v) \o <<"_">> \o Fmt(d)>>
ven_dev_dir == VenDevDirOf(ven, dev)

\* ven_dev_dir / f"SUBSYS_{subsys}"
subsys_dir == Append(ven_dev_dir, SubsysPrefix \o Fmt(subsys))

\* Path.exists()
Exists(p) == p \in dirs

\* list_candidate_versions(d): the immediate child directories of d, a SUBSYS_*
\* directory not being a version
list_candidate_versions(d) ==
    {p \in dirs : /\ Len(p) = Len(d) + 1
                  /\ SubSeq(p, 1, Len(d)) = d
                  /\ ~StartsWith(p[Len(p)], SubsysPrefix)}

\* newest(cands): main calls it with exactly one candidate, which is selected
newest(cands) == CHOOSE c \in cands : \A o \in cands : o = c

\* choose_version_interactively(cands): the candidates the operator can pick
choose_version_interactively(cands) == cands

\* "choose_version_interactively(cands) if len(cands) > 1 else newest(cands)":
\* the values chosen can take
Selections(cands) ==
    IF Cardinality(cands) > 1 THEN choose_version_interactively(cands)
    ELSE {newest(cands)}

(***************************************************************************)
(* find_inf.                                                               *)
(***************************************************************************)
InfSuffix == <<".","i","n","f">>
PrefIigd == <<"i","i","g","d">>
PrefIgd == <<"i","g","d">>
FIgd == <<"i","g","d","l","h","6","4",".","i","n","f">>
FIigd == <<"I","I","G","D","_","d","c","h",".","I","N","F">>
FOem == <<"o","e","m","1",".","i","n","f">>
FXigd == <<"x","i","g","d",".","i","n","f">>
FTxt == <<"i","g","d",".","t","x","t">>

FileNames == {FIgd, FIigd, FOem, FXigd, FTxt}

\* the files of a folder in the order a recursive walk meets them
FolderWalks ==
    {q \in SeqsUpTo(FileNames, MaxFiles) :
        \A a, b \in 1..Len(q) : a # b => q[a] # q[b]}

\* the folders main is run on: install_driver_from_folder only tells main
\* whether a descriptor was found
ChosenFolderWalks == {q \in FolderWalks : Len(q) <= 1}

\* the pattern "*.inf" of rglob, which ignores case on Windows
IsInfName(n) == EndsWithCI(n, InfSuffix)
RGlobInf(w) == SelectSeq(w, IsInfName)

\* re.match(prefix + r".*\.inf$", name, re.I)
ReMatchInf(prefix, n) ==
    /\ Len(n) >= Len(prefix) + Len(InfSuffix)
    /\ StartsWithCI(n, prefix)
    /\ EndsWithCI(n, InfSuffix)

Preferred(n) == ReMatchInf(PrefIigd, n) \/ ReMatchInf(PrefIgd, n)

\* variant with a fault: the first descriptor of any name is returned
FindInfFirstOfAny(w) ==
    IF RGlobInf(w) # <<>> THEN Some(RGlobInf(w)[1]) ELSE None
find_inf(w) ==
    LET found == RGlobInf(w)
        pref == SelectSeq(found, Preferred)
    IN  IF pref # <<>> THEN Some(pref[1])
        ELSE IF found # <<>> THEN Some(found[1])
        ELSE None

(***************************************************************************)
(* export_current_display_driver and the path main passes to it.           *)
(***************************************************************************)
\* str.replace(" ", "_")
ReplaceSpaces(t) == [k \in 1..Len(t) |-> IF t[k] = " " THEN "_" ELSE t[k]]

\* (info.get("CurrentDrvVer") or info.get("GPUDriver") or "unknown").replace(" ", "_")
drv_ver ==
    ReplaceSpaces(IF Truthy(info.CurrentDrvVer) THEN info.CurrentDrvVer[1]
                  ELSE IF Truthy(info.GPUDriver) THEN info.GPUDriver[1]
                  ELSE UnknownText)

\* ven_dev_dir / (f"SUBSYS_{subsys}" if subsys else "") / f"{drv_ver}-exported"
export_dir ==
    Append(IF Truthy(subsys) THEN subsys_dir ELSE ven_dev_dir,
           drv_ver \o ExportedSuffix)

\* dest_root.mkdir(parents=True, exist_ok=True)
MkdirParents(p) == dirs \cup {SubSeq(p, 1, k) : k \in 1..Len(p)}

(***************************************************************************)
(* The branches of main.                                                   *)
(***************************************************************************)
\* variant with a fault: no fallback once the subsystem directory exists
VenDevLookupUnlessSubsysDir ==
    /\ chosen = None
    /\ Exists(ven_dev_dir)
    /\ ~(Truthy(subsys) /\ Exists(subsys_dir))
\* line 180: "if not chosen and ven_dev_dir.exists()"
VenDevLookup == chosen = None /\ Exists(ven_dev_dir)

\* variant with a fault: the dry-run test is missing
InstallSkippedNever == FALSE
\* line 187: "if args.dry_run" under "if chosen"
InstallSkipped == dry_run

\* variant with a fault: the result of the install is ignored
AbortsNever(returned) == FALSE
\* line 191: "if not ok", with the value install_driver_from_folder returned
AbortsOnFailure(returned) == ~returned

\* variant with a fault: nothing is done either when no folder was chosen
ChangesSkippedWithoutMatch == dry_run \/ chosen = None
\* line 200: "if args.dry_run"
ChangesSkipped == dry_run

(***************************************************************************)
(* main.                                                                   *)
(***************************************************************************)
Init ==
    /\ pc = "start"
    /\ dry_run \in BOOLEAN
    /\ info = EmptyInfo
    /\ idx = 1
    /\ ven = None /\ dev = None /\ subsys = None
    /\ scanned = 0
    /\ dirs \in Libraries
    /\ chosen = None
    /\ fsReads = <<>>
    /\ walk = <<>>
    /\ inf = None
    /\ ok = None
    /\ effects = <<>>
    /\ logs = <<>>
    /\ listing = <<>> /\ newest_result = None /\ npc = "idle"

\* lines 30-35, 159: not elevated, the run relaunches itself and exits 0
RelaunchAsAdmin ==
    /\ pc = "start"
    /\ pc' = "exit0"
    /\ UNCHANGED <<dry_run, info, idx, ven, dev, subsys, scanned, dirs, chosen,
                   fsReads, walk, inf, ok, effects, logs, newestVars>>

\* lines 160-168: get_system_info() returned nothing
InventoryFailure ==
    /\ pc = "start"
    /\ info' = EmptyInfo
    /\ logs' = logs \o (IF dry_run THEN <<"starting", "dry_run_banner">>
                        ELSE <<"starting">>) \o <<"inventory_failed">>
    /\ pc' = "exit1"
    /\ UNCHANGED <<dry_run, idx, ven, dev, subsys, scanned, dirs, chosen,
                   fsReads, walk, inf, ok, effects, newestVars>>

\* lines 160-165, 170, 85: the inventory record is obtained, parse_ids is called
Inventory ==
    /\ pc = "start"
    /\ \E r \in InfoRecords : info' = r
    /\ logs' = logs \o (IF dry_run THEN <<"starting", "dry_run_banner">>
                        ELSE <<"starting">>)
    /\ idx' = 1
    /\ ven' = None /\ dev' = None /\ subsys' = None
    /\ pc' = "parse_ids"
    /\ UNCHANGED <<dry_run, scanned, dirs, chosen, fsReads, walk, inf, ok,
                   effects, newestVars>>

\* line 86 on ids = None: TypeError, which nothing catches
ParseTypeError ==
    /\ pc = "parse_ids"
    /\ info.HardwareIds = None
    /\ pc' = "crash"
    /\ UNCHANGED <<dry_run, info, idx, ven, dev, subsys, scanned, dirs, chosen,
                   fsReads, walk, inf, ok, effects, logs, newestVars>>

\* lines 86-94: one iteration of the loop; lines 95, 171 when it breaks
ParseIter ==
    /\ pc = "parse_ids"
    /\ info.HardwareIds # None
    /\ idx <= Len(info.HardwareIds[1])
    /\ LET s == info.HardwareIds[1][idx]
       IN  /\ ven' = Assign(ven, VenOf(s))
           /\ dev' = Assign(dev, DevOf(s))
           /\ subsys' = Assign(subsys, SubsysOf(s))
    /\ scanned' = idx
    /\ IF AllFilled(ven', dev', subsys')
       THEN /\ pc' = "resolve_subsys"
            /\ logs' = Append(logs, "detected")
            /\ idx' = idx
       ELSE /\ pc' = pc
            /\ logs' = logs
            /\ idx' = idx + 1
    /\ UNCHANGED <<dry_run, info, dirs, chosen, fsReads, walk, inf, ok,
                   effects, newestVars>>

\* lines 86, 95, 171: the loop is exhausted
ParseReturn ==
    /\ pc = "parse_ids"
    /\ info.HardwareIds # None
    /\ idx > Len(info.HardwareIds[1])
    /\ logs' = Append(logs, "detected")
    /\ pc' = "resolve_subsys"
    /\ UNCHANGED <<dry_run, info, idx, ven, dev, subsys, scanned, dirs, chosen,
                   fsReads, walk, inf, ok, effects, newestVars>>

Query(op, p) == [op |-> op, path |-> p]

\* lines 173-178
ResolveSubsys ==
    /\ pc = "resolve_subsys"
    /\ IF Truthy(subsys)
       THEN IF Exists(subsys_dir)
            THEN LET cands == list_candidate_versions(subsys_dir)
                 IN  /\ fsReads' = fsReads \o <<Query("exists", subsys_dir),
                                                Query("list", subsys_dir)>>
                     /\ IF cands # {}
                        THEN \E c \in Selections(cands) : chosen' = Some(c)
                        ELSE chosen' = None
            ELSE /\ fsReads' = Append(fsReads, Query("exists", subsys_dir))
                 /\ chosen' = None
       ELSE /\ fsReads' = fsReads
            /\ chosen' = None
    /\ pc' = "resolve_ven_dev"
    /\ UNCHANGED <<dry_run, info, idx, ven, dev, subsys, scanned, dirs, walk,
                   inf, ok, effects, logs, newestVars>>

\* lines 180-183
ResolveVenDev ==
    /\ pc = "resolve_ven_dev"
    /\ IF VenDevLookup
       THEN LET cands == list_candidate_versions(ven_dev_dir)
            IN  /\ fsReads' = fsReads \o <<Query("exists", ven_dev_dir),
                                           Query("list", ven_dev_dir)>>
                /\ IF cands # {}
                   THEN \E c \in Selections(cands) : chosen' = Some(c)
                   ELSE chosen' = chosen
       ELSE /\ fsReads' = IF chosen = None
                          THEN Append(fsReads, Query("exists", ven_dev_dir))
                          ELSE fsReads
            /\ chosen' = chosen
    /\ pc' = "chosen"
    /\ UNCHANGED <<dry_run, info, idx, ven, dev, subsys, scanned, dirs, walk,
                   inf, ok, effects, logs, newestVars>>

\* lines 185-188
MatchedDryRun ==
    /\ pc = "chosen"
    /\ chosen # None
    /\ InstallSkipped
    /\ logs' = logs \o <<"matched", "dry_would_install">>
    /\ pc' = "finish"
    /\ UNCHANGED <<dry_run, info, idx, ven, dev, subsys, scanned, dirs, chosen,
                   fsReads, walk, inf, ok, effects, newestVars>>

\* lines 185-186, 190, 116: install_driver_from_folder looks for the descriptor
InstallFindInf ==
    /\ pc = "chosen"
    /\ chosen # None
    /\ ~InstallSkipped
    /\ \E w \in ChosenFolderWalks : walk' = w /\ inf' = find_inf(w)
    /\ logs' = Append(logs, "matched")
    /\ pc' = "install"
    /\ UNCHANGED <<dry_run, info, idx, ven, dev, subsys, scanned, dirs, chosen,
                   fsReads, ok, effects, newestVars>>

\* lines 117-119, 191-194: no descriptor, install_driver_from_folder is False
InstallNoInf ==
    /\ pc = "install"
    /\ inf = None
    /\ ok' = Some(FALSE)
    /\ IF AbortsOnFailure(FALSE)
       THEN pc' = "exit3" /\ logs' = logs \o <<"no_inf", "install_failed">>
       ELSE pc' = "finish" /\ logs' = Append(logs, "no_inf")
    /\ walk' = <<>> /\ inf' = None
    /\ UNCHANGED <<dry_run, info, idx, ven, dev, subsys, scanned, dirs, chosen,
                   fsReads, effects, newestVars>>

\* lines 120-123, 191-194: pnputil /add-driver runs and returns rc
InstallRun ==
    /\ pc = "install"
    /\ inf # None
    /\ effects' = Append(effects, "install")
    /\ \E rc \in {0, 1} :
          /\ ok' = Some(rc = 0)
          /\ IF AbortsOnFailure(rc = 0)
             THEN pc' = "exit3" /\ logs' = logs \o <<"installing", "install_failed">>
             ELSE pc' = "finish" /\ logs' = Append(logs, "installing")
    /\ walk' = <<>> /\ inf' = None
    /\ UNCHANGED <<dry_run, info, idx, ven, dev, subsys, scanned, dirs, chosen,
                   fsReads, newestVars>>

\* lines 195-198
NoMatch ==
    /\ pc = "chosen"
    /\ chosen = None
    /\ logs' = logs \o (IF dry_run THEN <<"no_match", "dry_would_prompt">>
                        ELSE <<"no_match">>)
    /\ pc' = "finish"
    /\ UNCHANGED <<dry_run, info, idx, ven, dev, subsys, scanned, dirs, chosen,
                   fsReads, walk, inf, ok, effects, newestVars>>

\* lines 200-201
SkipChanges ==
    /\ pc = "finish"
    /\ ChangesSkipped
    /\ logs' = Append(logs, "dry_skip")
    /\ pc' = "done"
    /\ UNCHANGED <<dry_run, info, idx, ven, dev, subsys, scanned, dirs, chosen,
                   fsReads, walk, inf, ok, effects, newestVars>>

\* lines 202-203, 125-141: block_windows_driver_updates
BlockUpdates ==
    /\ pc = "finish"
    /\ ~ChangesSkipped
    /\ effects' = Append(effects, "block")
    /\ logs' = Append(logs, "blocking")
    /\ pc' = "export"
    /\ UNCHANGED <<dry_run, info, idx, ven, dev, subsys, scanned, dirs, chosen,
                   fsReads, walk, inf, ok, newestVars>>

\* lines 204-206, 144-147: export_current_display_driver without a name
ExportSkipped ==
    /\ pc = "export"
    /\ ~Truthy(info.CurrentInf)
    /\ dirs' = MkdirParents(export_dir)
    /\ effects' = Append(effects, "mkdir")
    /\ logs' = Append(logs, "export_skipped")
    /\ pc' = "done"
    /\ UNCHANGED <<dry_run, info, idx, ven, dev, subsys, scanned, chosen,
                   fsReads, walk, inf, ok, newestVars>>

\* lines 204-206, 144, 148-151: pnputil /export-driver runs
ExportRun ==
    /\ pc = "export"
    /\ Truthy(info.CurrentInf)
    /\ dirs' = MkdirParents(export_dir)
    /\ effects' = effects \o <<"mkdir", "export">>
    /\ logs' = Append(logs, "exporting")
    /\ pc' = "done"
    /\ UNCHANGED <<dry_run, info, idx, ven, dev, subsys, scanned, chosen,
                   fsReads, walk, inf, ok, newestVars>>

\* lines 208-209
Done ==
    /\ pc = "done"
    /\ logs' = Append(logs, "done")
    /\ pc' = "end"
    /\ UNCHANGED <<dry_run, info, idx, ven, dev, subsys, scanned, dirs, chosen,
                   fsReads, walk, inf, ok, effects, newestVars>>

Next ==
    \/ RelaunchAsAdmin \/ InventoryFailure \/ Inventory
    \/ ParseTypeError \/ ParseIter \/ ParseReturn
    \/ ResolveSubsys \/ ResolveVenDev
    \/ MatchedDryRun \/ InstallFindInf \/ InstallNoInf \/ InstallRun \/ NoMatch
    \/ SkipChanges \/ BlockUpdates \/ ExportSkipped \/ ExportRun
    \/ Done

Spec == Init /\ [][Next]_vars

(***************************************************************************)
(* newest_driver_folder, called on its own.                                *)
(***************************************************************************)
EntryNames == {VerName(k) : k \in 1..MaxEntries}
Entries == [name : EntryNames, is_dir : BOOLEAN, mtime : 1..MaxMtime]

\* what base.iterdir() yields, in the order the system returns it
RECURSIVE ListingsUpTo(_)
ListingsUpTo(n) ==
    IF n = 0 THEN {<<>>}
    ELSE LET shorter == ListingsUpTo(n - 1)
             longest == {r \in shorter : Len(r) = n - 1}
         IN  shorter \cup
             {Append(x[1], x[2]) :
                 x \in {y \in longest \X Entries :
                           \A k \in 1..Len(y[1]) : y[1][k].name # y[2].name}}
Listings == ListingsUpTo(MaxEntries)

IsDir(e) == e.is_dir

\* [p for p in base.iterdir() if p.is_dir()]
Candidates(q) == SelectSeq(q, IsDir)

\* variant with a fault: reverse=True is missing
RECURSIVE SortByMtimeAsc(_)
SortByMtimeAsc(q) ==
    IF q = <<>> THEN <<>>
    ELSE LET e == q[Len(q)]
             done == SortByMtimeAsc(SubSeq(q, 1, Len(q) - 1))
             keep == {k \in 1..Len(done) : done[k].mtime <= e.mtime}
             n == Cardinality(keep)
         IN  SubSeq(done, 1, n) \o <<e>> \o SubSeq(done, n + 1, Len(done))

\* candidates.sort(key=lambda p: p.stat().st_mtime, reverse=True); list.sort is
\* stable: e goes behind every element that does not sort after it
RECURSIVE SortByMtimeDesc(_)
SortByMtimeDesc(q) ==
    IF q = <<>> THEN <<>>
    ELSE LET e == q[Len(q)]
             done == SortByMtimeDesc(SubSeq(q, 1, Len(q) - 1))
             keep == {k \in 1..Len(done) : done[k].mtime >= e.mtime}
             n == Cardinality(keep)
         IN  SubSeq(done, 1, n) \o <<e>> \o SubSeq(done, n + 1, Len(done))

InitNewest ==
    /\ pc = "idle"
    /\ dry_run = FALSE
    /\ info = EmptyInfo
    /\ idx = 1
    /\ ven = None /\ dev = None /\ subsys = None
    /\ scanned = 0
    /\ dirs = {}
    /\ chosen = None
    /\ fsReads = <<>>
    /\ walk = <<>>
    /\ inf = None
    /\ ok = None
    /\ effects = <<>>
    /\ logs = <<>>
    /\ listing \in Listings
    /\ newest_result = None
    /\ npc = "called"

\* lines 99-101
NewestNone ==
    /\ npc = "called"
    /\ Candidates(listing) = <<>>
    /\ newest_result' = None
    /\ npc' = "returned"
    /\ UNCHANGED <<mainVars, listing>>

\* lines 99, 102-103
NewestPick ==
    /\ npc = "called"
    /\ Candidates(listing) # <<>>
    /\ newest_result' = Some(SortByMtimeDesc(Candidates(listing))[1])
    /\ npc' = "returned"
    /\ UNCHANGED <<mainVars, listing>>

NextNewest == NewestNone \/ NewestPick

SpecNewest == InitNewest /\ [][NextNewest]_vars

(***************************************************************************)
(* find_inf, called on its own on every folder.                            *)
(***************************************************************************)
InitFindInf ==
    /\ pc = "find_inf"
    /\ dry_run = FALSE
    /\ info = EmptyInfo
    /\ idx = 1
    /\ ven = None /\ dev = None /\ subsys = None
    /\ scanned = 0
    /\ dirs = {}
    /\ chosen = None
    /\ fsReads = <<>>
    /\ walk \in FolderWalks
    /\ inf = None
    /\ ok = None
    /\ effects = <<>>
    /\ logs = <<>>
    /\ listing = <<>> /\ newest_result = None /\ npc = "idle"

\* lines 106-109: the first loop meets a preferred name and returns it
FindInfPreferred ==
    /\ pc = "find_inf"
    /\ SelectSeq(RGlobInf(walk), Preferred) # <<>>
    /\ inf' = find_inf(walk)
    /\ pc' = "found"
    /\ UNCHANGED <<dry_run, info, idx, ven, dev, subsys, scanned, dirs, chosen,
                   fsReads, walk, ok, effects, logs, newestVars>>

\* lines 106-112: the first loop ends, the second returns the first descriptor
FindInfFallback ==
    /\ pc = "find_inf"
    /\ SelectSeq(RGlobInf(walk), Preferred) = <<>>
    /\ RGlobInf(walk) # <<>>
    /\ inf' = find_inf(walk)
    /\ pc' = "found"
    /\ UNCHANGED <<dry_run, info, idx, ven, dev, subsys, scanned, dirs, chosen,
                   fsReads, walk, ok, effects, logs, newestVars>>

\* lines 106-113: both loops end, None is returned
FindInfNone ==
    /\ pc = "find_inf"
    /\ RGlobInf(walk) = <<>>
    /\ inf' = find_inf(walk)
    /\ pc' = "found"
    /\ UNCHANGED <<dry_run, info, idx, ven, dev, subsys, scanned, dirs, chosen,
                   fsReads, walk, ok, effects, logs, newestVars>>

NextFindInf == FindInfPreferred \/ FindInfFallback \/ FindInfNone

SpecFindInf == InitFindInf /\ [][NextFindInf]_vars

(***************************************************************************)
(* Properties.                                                             *)
(***************************************************************************)
MaxOf(S) == CHOOSE m \in S : \A n \in S : m >= n
Has(q, x) == \E k \in 1..Len(q) : q[k] = x
Count(q, x) == Cardinality({k \in 1..Len(q) : q[k] = x})

\* parse_ids has returned to main
Parsed ==
    pc \in {"resolve_subsys", "resolve_ven_dev", "chosen", "install", "finish",
            "export", "done", "end", "exit3"}

Ids == info.HardwareIds[1]

\* the token of the earliest string of q that has one, F being VenOf, DevOf or SubsysOf
FirstFill(F(_), q) ==
    LET hits == {k \in 1..Len(q) : F(q[k]) # None}
    IN  IF hits = {} THEN None ELSE F(q[MinOf(hits)])

\* the token of the latest of the first n strings of q that has one
LastFill(F(_), q, n) ==
    LET hits == {k \in 1..n : F(q[k]) # None}
    IN  IF hits = {} THEN None ELSE F(q[MaxOf(hits)])

\* the number of strings the scan reads: up to the first one by which every
\* field has had a token, or all of them
StopIndex(q) ==
    LET full == {k \in 1..Len(q) :
                    /\ \E j \in 1..k : VenOf(q[j]) # None
                    /\ \E j \in 1..k : DevOf(q[j]) # None
                    /\ \E j \in 1..k : SubsysOf(q[j]) # None}
    IN  IF full = {} THEN Len(q) ELSE MinOf(full)

SubsysCands ==
    IF Truthy(subsys) /\ Exists(subsys_dir)
    THEN list_candidate_versions(subsys_dir) ELSE {}
VenDevCands == list_candidate_versions(ven_dev_dir)
Listed(p) == Has(fsReads, Query("list", p))

\* C2: when the vendor/device directory exists and the subsystem-scoped lookup
\* yields no candidate, the vendor/device directory is enumerated and, if it has
\* a candidate, one of them is chosen; when the subsystem directory yields a
\* candidate, one of its candidates is chosen and the vendor/device directory is
\* not enumerated.
C2_FallbackToVenDev ==
    pc = "chosen" =>
        /\ (Exists(ven_dev_dir) /\ SubsysCands = {}) =>
              /\ Listed(ven_dev_dir)
              /\ VenDevCands # {} => (chosen # None /\ chosen[1] \in VenDevCands)
        /\ SubsysCands # {} =>
              /\ chosen # None
              /\ chosen[1] \in SubsysCands
              /\ ~Listed(ven_dev_dir)

\* the subsystem directory is there and empty, and a sibling version is chosen
C2_Witness ==
    /\ pc = "chosen"
    /\ Truthy(subsys) /\ Exists(subsys_dir) /\ SubsysCands = {}
    /\ chosen # None /\ chosen[1] \in VenDevCands

\* C3 as claimed: with vendor or device absent no folder is chosen and
\* resolution makes no query of the driver-library filesystem.
C3_NoLookupWithoutVenDev ==
    (pc = "chosen" /\ (~Truthy(ven) \/ ~Truthy(dev))) =>
        (chosen = None /\ fsReads = <<>>)

\* C4 as claimed: once the inventory record is obtained extraction never
\* raises, and a missing, null or empty hardwareIds yields (None, None, None).
C4_ExtractionNeverRaises ==
    /\ pc # "crash"
    /\ (Parsed /\ (info.HardwareIds = None \/ Ids = <<>>)) =>
          (ven = None /\ dev = None /\ subsys = None)

(***************************************************************************)
(* Order of names, by character code.                                      *)
(***************************************************************************)
CharOrder == <<"1", "2", "3", "4", "5", "6", "7", "8", "9", "v">>
CodeOf(c) == CHOOSE k \in 1..Len(CharOrder) : CharOrder[k] = c

RECURSIVE LexLess(_, _)
LexLess(a, b) ==
    IF b = <<>> THEN FALSE
    ELSE IF a = <<>> THEN TRUE
    ELSE IF CodeOf(a[1]) # CodeOf(b[1]) THEN CodeOf(a[1]) < CodeOf(b[1])
    ELSE LexLess(Tail(a), Tail(b))

Newest(q) == MaxOf({q[k].mtime : k \in 1..Len(q)})

\* C5 as claimed: the selected folder has the greatest modification time and,
\* among the folders that share it, the lexicographically greatest name.
C5_TieBrokenByName ==
    (npc = "returned" /\ Candidates(listing) # <<>>) =>
        /\ newest_result # None
        /\ newest_result[1].mtime = Newest(Candidates(listing))
        /\ \A k \in 1..Len(listing) :
              (listing[k].is_dir /\ listing[k].mtime = newest_result[1].mtime
                 /\ listing[k].name # newest_result[1].name)
              => LexLess(listing[k].name, newest_result[1].name)

\* C5 amended: the selected folder has the greatest modification time and,
\* among the folders that share it, is the one the enumeration returned first.
C5_NewestFirstEnumerated ==
    npc = "returned" =>
        IF Candidates(listing) = <<>> THEN newest_result = None
        ELSE /\ newest_result # None
             /\ newest_result[1].is_dir
             /\ newest_result[1].mtime = Newest(Candidates(listing))
             /\ newest_result[1] =
                  listing[MinOf({k \in 1..Len(listing) :
                                    /\ listing[k].is_dir
                                    /\ listing[k].mtime = Newest(Candidates(listing))})]

\* two folders share the greatest time and the first enumerated one, which has
\* the smaller name, is selected
C5_Witness ==
    /\ npc = "returned"
    /\ newest_result # None
    /\ \E k \in 1..Len(listing) :
          /\ listing[k].is_dir
          /\ listing[k].mtime = newest_result[1].mtime
          /\ LexLess(newest_result[1].name, listing[k].name)
    /\ \E k \in 1..Len(listing) :
          listing[k].is_dir /\ listing[k].mtime < newest_result[1].mtime

InfNames == {walk[k] : k \in {j \in 1..Len(walk) : IsInfName(walk[j])}}

\* C6: find_inf returns a preferred descriptor when the folder has one, a
\* non-preferred one only when it has none, and nothing only when the folder
\* has no descriptor at all.
C6_PreferredBeatsFallback ==
    pc = "found" =>
        /\ (\E n \in InfNames : Preferred(n)) => (inf # None /\ Preferred(inf[1]))
        /\ inf # None => inf[1] \in InfNames
        /\ inf = None => InfNames = {}

\* the walk meets a non-preferred descriptor first and a preferred one is returned
C6_Witness ==
    /\ pc = "found"
    /\ Len(walk) >= 2
    /\ IsInfName(walk[1]) /\ ~Preferred(walk[1])
    /\ inf # None /\ Preferred(inf[1]) /\ inf[1] # walk[1]

C8_SuppressionWithoutMatch ==
    (pc \in {"done", "end"} /\ ~dry_run /\ chosen = None) =>
        /\ Count(effects, "block") = 1
        /\ effects[1] = "block"
        /\ ~Has(effects, "install")
        /\ Has(effects, "mkdir")

\* such a run has exported and reached Done
C8_Witness ==
    /\ pc = "end" /\ ~dry_run /\ chosen = None
    /\ Has(logs, "no_match")
    /\ effects = <<"block", "mkdir", "export">>

\* C9 as claimed: export_current_display_driver with no descriptor name leaves
\* the directories as they are and does not run the export tool.
C9_ExportWithoutNameIsNoOp ==
    [][(pc = "export" /\ ~Truthy(info.CurrentInf)) =>
          (dirs' = dirs /\ ~Has(effects', "export"))]_vars

\* C10: a dry run installs nothing, blocks nothing, exports nothing and creates
\* no directory, whatever path it takes.
C10_DryRunReadOnly ==
    [][dry_run => (effects = <<>> /\ effects' = <<>> /\ dirs' = dirs)]_vars

\* a dry run has matched a folder and reached Done
C10_Witness ==
    /\ dry_run /\ pc = "end" /\ chosen # None
    /\ Has(logs, "dry_would_install")

====
